---- MODULE Spec2Model ----
(***************************************************************************)
(* Model of the enrichment asset objects_transform of pipeline_xml.py      *)
(* (pipeline.py holds the same plan without the column rename).            *)
(*                                                                         *)
(* A table is a sequence of rows; a row is a function from column names    *)
(* to values.  A scalar null is NULL; a list column holds a record         *)
(* [isNull, items] so that a null list and an empty list are different     *)
(* values, as they are in polars.                                          *)
(***************************************************************************)
EXTENDS Integers, Sequences, FiniteSets, TLC

(* ---------------------------- bounds ----------------------------------- *)
\* rows of the objects table
MaxRows == 2
\* nested cells of the whole objects table: the elements of its
\* classification and constituent lists, a null list counting as one
MaxElems == 2
\* rows of the terminology table
MaxTerms == 2
\* columns and nested fields an input of the wrong shape lacks
MaxMissing == 1
\* rows of the table handed to the asset check
MaxCheckRows == 2
\* cells, column types and columns in which that table departs from a
\* table that passes every check
MaxDeviations == 2

(* ---------------------------- values ----------------------------------- *)
NULL == "null"
NullList == [isNull |-> TRUE, items |-> <<>>]
List(s) == [isNull |-> FALSE, items |-> s]

\* the record identifiers; the identifier column is a plain string column,
\* so an identifier is never null
AllIds == <<"OBJ-001", "OBJ-002", "OBJ-003", "OBJ-004">>

\* rows terminology.xml can hold, in file order: term T1 is listed under two
\* term types, so that a terminology with both rows has a duplicate term_id
TermRows ==
    << [term_id |-> "T1", term_type |-> "object_type", label |-> "Painting"],
       [term_id |-> "T9", term_type |-> "medium", label |-> "Oil on canvas"],
       [term_id |-> "T1", term_type |-> "nationality", label |-> "French"] >>

\* elements of the nested column classification_ids
ClassElems ==
    { [type_id |-> "T1", term_id |-> "T9"],
      [type_id |-> NULL, term_id |-> "T9"] }

\* elements of the nested column constituents, before enrichment
ConstElems ==
    { [name |-> "Claude Monet", role |-> "artist", birth_year |-> 1840,
       nationality_id |-> "T1"],
      [name |-> "Berthe Morisot", role |-> "maker", birth_year |-> 1841,
       nationality_id |-> "T9"] }

RECURSIVE SeqsUpTo(_, _)
SeqsUpTo(S, n) ==
    IF n = 0 THEN {<<>>}
    ELSE LET shorter == SeqsUpTo(S, n - 1)
         IN  shorter \cup {Append(s, e) : s \in {t \in shorter : Len(t) = n - 1}, e \in S}

Range(s) == {s[i] : i \in 1..Len(s)}

\* the number of elements a list cell holds
Size(v) == IF v.isNull THEN 0 ELSE Len(v.items)

\* what a list cell takes of the MaxElems budget
Cost(v) == IF v.isNull THEN 1 ELSE Len(v.items)

(* ------------------------ input tables --------------------------------- *)
\* the columns of the harvested objects table: the identifier under the
\* name id, which objects_transform renames, the classification ids under
\* the name classification_ids, which it leaves, and a column accession_no
\* that the transform does not mention
HarvestCols == {"id", "title", "date_made", "credit_line", "department",
                "dimensions", "media", "classification_ids", "constituents",
                "accession_no"}

\* the flat and pass-through values of the i-th harvested record
FlatValue(c, i) ==
    CASE c = "title" -> <<"Water Lilies", "Untitled", "The Thinker", "Study">>[i]
      [] c = "date_made" -> <<1906, 1890, 1904, 1880>>[i]
      [] c = "credit_line" -> "Gift"
      [] c = "department" -> <<"Paintings", "Paintings", "Sculpture", "Drawings">>[i]
      [] c = "dimensions" -> List(<<[type |-> "height", value |-> 10 * i, unit |-> "cm"]>>)
      [] c = "media" -> List(<<[type |-> "primary", url |-> AllIds[i]]>>)
      [] c = "accession_no" -> <<"1906.1", "1906.2", "1904.7", "1880.3">>[i]

ObjectRow(cols, i, id, cl, co) ==
    [c \in cols |->
        CASE c \in {"id", "object_id"} -> id
          [] c \in {"classifications", "classification_ids"} -> cl
          [] c = "constituents" -> co
          [] OTHER -> FlatValue(c, i)]

NestedPairs(budget) ==
    { p \in ({NullList} \cup {List(s) : s \in SeqsUpTo(ClassElems, budget)})
            \X ({NullList} \cup {List(s) : s \in SeqsUpTo(ConstElems, budget)}) :
        Cost(p[1]) + Cost(p[2]) <= budget }

RECURSIVE NestedTotal(_)
NestedTotal(t) ==
    IF t = <<>> THEN 0
    ELSE LET r == t[Len(t)]
         IN  Cost(r.cl) + Cost(r.co) + NestedTotal(SubSeq(t, 1, Len(t) - 1))

\* the harvested records of n files, as triples (id, classification ids,
\* constituents).  Identifiers are only compared for equality, so a record
\* takes an identifier already used or the first unused one.
RECURSIVE Records(_)
Records(n) ==
    IF n = 0 THEN {<<>>}
    ELSE UNION { { Append(t, [id |-> AllIds[j], cl |-> p[1], co |-> p[2]]) :
                     j \in 1..(Cardinality({t[i].id : i \in 1..Len(t)}) + 1),
                     p \in NestedPairs(MaxElems - NestedTotal(t)) } :
                 t \in Records(n - 1) }

ObjectTables(cols) ==
    UNION { { [i \in 1..n |-> ObjectRow(cols, i, t[i].id, t[i].cl, t[i].co)] :
                t \in Records(n) } : n \in 0..MaxRows }

\* the terminology tables: up to MaxTerms of the rows, in file order (the
\* order of the lookup rows is not observable through the joins)
RECURSIVE SubSeqs(_)
SubSeqs(s) ==
    IF s = <<>> THEN {<<>>}
    ELSE LET rest == SubSeqs(Tail(s))
         IN  rest \cup {<<Head(s)>> \o t : t \in rest}

TermTables == {s \in SubSeqs(TermRows) : Len(s) <= MaxTerms}

(* ------------------- polars operations on tables ----------------------- *)
\* DataFrame.columns of a table with at least one row
Columns(t) == IF t = <<>> THEN {} ELSE DOMAIN t[1]

\* LazyFrame.rename(m): m maps an old column name to its new name
Rename(t, m) ==
    [i \in 1..Len(t) |->
        [c \in {IF old \in DOMAIN m THEN m[old] ELSE old : old \in DOMAIN t[i]} |->
            IF c \in DOMAIN t[i] /\ c \notin DOMAIN m
            THEN t[i][c]
            ELSE t[i][CHOOSE old \in DOMAIN m : m[old] = c]]]

\* LazyFrame.select of plain columns
Select(t, cs) == [i \in 1..Len(t) |-> [c \in cs |-> t[i][c]]]

\* filter(pl.col(col).list.len() > 0): list.len() of a null list is null,
\* and filter drops the rows whose predicate is null
FilterNonEmpty(t, col) ==
    SelectSeq(t, LAMBDA r : (~r[col].isNull) /\ Len(r[col].items) > 0)

\* explode(col).unnest(col): one row per element, the element's fields
\* beside the row's other columns; an empty or null list gives one row of
\* null fields
RECURSIVE ExplodeUnnest(_, _, _)
ExplodeUnnest(t, col, fields) ==
    IF t = <<>> THEN <<>>
    ELSE LET r == t[1]
             rest == [c \in DOMAIN r \ {col} |-> r[c]]
             mine == IF Size(r[col]) = 0
                     THEN << rest @@ [f \in fields |-> NULL] >>
                     ELSE [k \in 1..Len(r[col].items) |-> rest @@ r[col].items[k]]
         IN  mine \o ExplodeUnnest(Tail(t), col, fields)

\* the rows a left row is joined with; a null key matches nothing
Matches(l, right, on) ==
    SelectSeq(right, LAMBDA r : l[on] # NULL /\ r[on] = l[on])

RECURSIVE InnerJoin(_, _, _, _)
InnerJoin(left, right, on, nulls) ==
    IF left = <<>> THEN <<>>
    ELSE LET l == left[1]
             m == Matches(l, right, on)
             mine == [k \in 1..Len(m) |-> l @@ [c \in DOMAIN m[k] \ {on} |-> m[k][c]]]
         IN  mine \o InnerJoin(Tail(left), right, on, nulls)

\* join(right, on=on, how="left"): every left row once per matching right
\* row, or once with the right columns null (nulls) when nothing matches.
\* No join of the plan asks for an order (maintain_order), so the engine is
\* free in the order of the rows it emits: the rows are listed here in left
\* order, and ArrivalOrders and Permute give the orders they can take.
RECURSIVE LeftJoin(_, _, _, _)
LeftJoin(left, right, on, nulls) ==
    IF left = <<>> THEN <<>>
    ELSE LET l == left[1]
             m == Matches(l, right, on)
             mine == IF m = <<>>
                     THEN << l @@ nulls >>
                     ELSE [k \in 1..Len(m) |-> l @@ [c \in DOMAIN m[k] \ {on} |-> m[k][c]]]
         IN  mine \o LeftJoin(Tail(left), right, on, nulls)

\* the table with its rows in the order p, a permutation of 1..Len(t)
Permute(t, p) == [i \in 1..Len(t) |-> t[p[i]]]

RECURSIVE Distinct(_)
Distinct(s) ==
    IF s = <<>> THEN <<>>
    ELSE LET d == Distinct(SubSeq(s, 1, Len(s) - 1))
         IN  IF s[Len(s)] \in Range(d) THEN d ELSE Append(d, s[Len(s)])

\* the orders in which the rows of an unordered join can reach group_by:
\* every order of the rows within each group.  The order between rows of
\* different groups does not reach the aggregated lists, so the groups are
\* listed one after the other.
RECURSIVE GroupOrders(_, _, _)
GroupOrders(t, key, keys) ==
    IF keys = <<>> THEN {<<>>}
    ELSE LET g == SelectSeq(t, LAMBDA r : r[key] = Head(keys))
         IN  {Permute(g, p) \o rest :
                 p \in Permutations(1..Len(g)),
                 rest \in GroupOrders(t, key, Tail(keys))}

ArrivalOrders(t, key) ==
    GroupOrders(t, key, Distinct([i \in 1..Len(t) |-> t[i][key]]))

GroupByAgg_ungrouped(t, key, fields, out) ==
    [i \in 1..Len(t) |->
        [c \in {key, out} |->
            IF c = key THEN t[i][key]
            ELSE List(<< [f \in fields |-> t[i][f]] >>)]]

\* group_by(key).agg(pl.struct(fields).alias(out)): one row per distinct
\* key; the rows of a group keep the order they have in t
GroupByAgg(t, key, fields, out) ==
    LET keys == Distinct([i \in 1..Len(t) |-> t[i][key]])
        group(k) == SelectSeq(t, LAMBDA r : r[key] = k)
    IN  [g \in 1..Len(keys) |->
            [c \in {key, out} |->
                IF c = key THEN keys[g]
                ELSE LET rows == group(keys[g])
                     IN  List([j \in 1..Len(rows) |-> [f \in fields |-> rows[j][f]]])]]

FillNull_skip(t, col) == t

\* with_columns(pl.col(col).fill_null([]))
FillNull(t, col) ==
    [i \in 1..Len(t) |->
        [c \in DOMAIN t[i] |->
            IF c = col /\ t[i][c].isNull THEN List(<<>>) ELSE t[i][c]]]

(* ------------------- the plan of objects_transform --------------------- *)
col_renames == [id |-> "object_id", classifications |-> "classification_ids"]

\* the dict passed to rename: the entries whose old name is a column
Renames(cols) == [old \in (DOMAIN col_renames) \cap cols |-> col_renames[old]]

\* objects = harvest_objects.lazy().rename(m)
Objects(T, m) == Rename(T, m)

TypeLabels(L) ==
    [i \in 1..Len(L) |-> [type_id |-> L[i].term_id, type_label |-> L[i].label]]

TermLabels_type(L) ==
    [i \in 1..Len(L) |-> [term_id |-> L[i].term_id, term_label |-> L[i].term_type]]

TermLabels(L) ==
    [i \in 1..Len(L) |-> [term_id |-> L[i].term_id, term_label |-> L[i].label]]

NationalityLookup_unfiltered(L) ==
    [i \in 1..Len(L) |-> [nationality_id |-> L[i].term_id,
                          nationality |-> L[i].label]]

NationalityLookup(L) ==
    LET nat == SelectSeq(L, LAMBDA r : r.term_type = "nationality")
    IN  [i \in 1..Len(nat) |-> [nationality_id |-> nat[i].term_id,
                                 nationality |-> nat[i].label]]

ClassificationsFlat(T, m) ==
    ExplodeUnnest(
        FilterNonEmpty(Select(Objects(T, m), {"object_id", "classification_ids"}),
                       "classification_ids"),
        "classification_ids", {"type_id", "term_id"})

\* the rows of the two lookup joins, in left order
ClassificationsJoined(L, T, m) ==
    Select(
        LeftJoin(LeftJoin(ClassificationsFlat(T, m), TypeLabels(L), "type_id",
                          [type_label |-> NULL]),
                 TermLabels(L), "term_id", [term_label |-> NULL]),
        {"object_id", "type_label", "term_label"})

\* joined: the joined rows in the order the joins emitted them
ClassificationsNested(joined) ==
    GroupByAgg(joined, "object_id",
               {"type_label", "term_label"}, "classifications")

ConstituentsFlat(T, m) ==
    ExplodeUnnest(
        FilterNonEmpty(Select(Objects(T, m), {"object_id", "constituents"}),
                       "constituents"),
        "constituents", {"name", "role", "birth_year", "nationality_id"})

ConstituentsJoined(L, T, m) ==
    Select(
        LeftJoin(ConstituentsFlat(T, m), NationalityLookup(L), "nationality_id",
                 [nationality |-> NULL]),
        {"object_id", "name", "role", "birth_year", "nationality"})

ConstituentsNested(joined) ==
    GroupByAgg(joined, "object_id",
               {"name", "role", "birth_year", "nationality"}, "constituents")

SelectedCols == {"object_id", "title", "date_made", "credit_line", "department",
                 "dimensions", "media"}

\* the rows of the two assembling joins, in left order; cj and kj are the
\* rows of the lookup joins in the order they were emitted
Assembled(T, m, cj, kj) ==
    LeftJoin(
        LeftJoin(Select(Objects(T, m), SelectedCols),
                 ClassificationsNested(cj), "object_id",
                 [classifications |-> NullList]),
        ConstituentsNested(kj), "object_id",
        [constituents |-> NullList])

\* the materialized table; assembled are the rows of the assembling joins
\* and pr is the order in which the joins emitted them
Enriched(assembled, pr) ==
    FillNull(FillNull(Permute(assembled, pr), "classifications"), "constituents")

\* the names the plan refers to: columns of objects (after the rename),
\* fields of the elements of the two exploded columns, columns of terminology
RequiredObjectCols == SelectedCols \cup {"classification_ids", "constituents"}
ClassificationFields == {"type_id", "term_id"}
ConstituentFields == {"name", "role", "birth_year", "nationality_id"}
TerminologyCols == {"term_id", "term_type", "label"}

\* the names of the plan that the inputs do not have; polars looks the
\* names up when a plan is collected.  The shape of a table is read off its
\* first row and the shape of a nested column off its elements (a table
\* without rows and a column without elements have the harvest's shape).
Unresolved(L, T, m) ==
    LET objects == Objects(T, m)
        elems(col) ==
            IF col \in Columns(objects)
            THEN UNION {Range(objects[i][col].items) : i \in 1..Len(objects)}
            ELSE {}
        lacking(col, fields) ==
            UNION {{[in |-> col, name |-> f] : f \in fields \ DOMAIN e} :
                     e \in elems(col)}
    IN  {[in |-> "objects", name |-> c] :
            c \in IF T = <<>> THEN {} ELSE RequiredObjectCols \ Columns(objects)}
        \cup lacking("classification_ids", ClassificationFields)
        \cup lacking("constituents", ConstituentFields)
        \cup {[in |-> "terminology", name |-> c] :
                 c \in IF L = <<>> THEN {} ELSE TerminologyCols \ DOMAIN L[1]}

(* the polars methods each part of objects_transform calls, in order *)
LazyCalls == <<"lazy", "lazy", "rename">>

ClassificationsCalls_eager ==
    <<"select", "select", "select", "filter", "explode", "unnest",
      "join", "join", "select", "group_by", "agg", "collect">>

ClassificationsCalls ==
    <<"select", "select", "select", "filter", "explode", "unnest",
      "join", "join", "select", "group_by", "agg">>

ConstituentsCalls ==
    <<"filter", "select", "select", "filter", "explode", "unnest",
      "join", "select", "group_by", "agg">>

AssembleCalls == <<"select", "join", "join", "with_columns">>

\* the number of times a run of calls evaluates a plan: of the LazyFrame
\* methods only collect does
Evaluations(calls) == Cardinality({i \in 1..Len(calls) : calls[i] = "collect"})

(* ------------------------- the state machine --------------------------- *)
VARIABLES
    harvest_terminology,  \* argument: the terminology DataFrame
    harvest_objects,      \* argument: the objects DataFrame
    pc,                   \* position in objects_transform
    renames,              \* the dict given to rename
    plan,                 \* the LazyFrames bound so far
    materialized,         \* number of plan evaluations so far
    output,               \* what the caller has received
    objects_transform,    \* argument of the asset check: the DataFrame
    check_pc,             \* position in the asset check
    errors,               \* the list errors of check_objects_transform
    check_result,         \* what check_objects_transform returned
    unique_errors,        \* the list unique_errors of main
    check_output          \* the Series the dataframe checks returned

transformVars == <<harvest_terminology, harvest_objects, pc, renames, plan,
                   materialized, output>>
checkVars == <<objects_transform, check_pc, errors, check_result,
               unique_errors, check_output>>
vars == <<harvest_terminology, harvest_objects, pc, renames, plan,
          materialized, output, objects_transform, check_pc, errors,
          check_result, unique_errors, check_output>>

NoOutput == [ready |-> FALSE, table |-> <<>>]
NoTable == [dtype |-> <<>>, rows |-> <<>>]
NoResult == [returned |-> FALSE, passed |-> FALSE, errors |-> <<>>]

\* the asset check has not been called
CheckNotRun ==
    /\ objects_transform = NoTable
    /\ check_pc = [state |-> "not_run", column |-> 0]
    /\ errors = <<>>
    /\ check_result = NoResult
    /\ unique_errors = <<>>
    /\ check_output = <<>>

Init ==
    /\ harvest_objects \in ObjectTables(HarvestCols)
    /\ harvest_terminology \in TermTables
    /\ pc = "start"
    /\ renames = <<>>
    /\ plan = <<>>
    /\ materialized = 0
    /\ output = NoOutput
    /\ CheckNotRun

\* terminology, objects: lazy frames over the arguments, columns renamed
Lazy ==
    /\ pc = "start"
    /\ renames' = Renames(Columns(harvest_objects))
    /\ plan' = <<"terminology", "objects">>
    /\ materialized' = materialized + Evaluations(LazyCalls)
    /\ pc' = "lazy"
    /\ UNCHANGED <<harvest_terminology, harvest_objects, output>>
    /\ UNCHANGED checkVars

BuildClassifications ==
    /\ pc = "lazy"
    /\ plan' = plan \o <<"type_labels", "term_labels", "classifications_flat",
                         "classifications_nested">>
    /\ materialized' = materialized + Evaluations(ClassificationsCalls)
    /\ pc' = "classifications"
    /\ UNCHANGED <<harvest_terminology, harvest_objects, renames, output>>
    /\ UNCHANGED checkVars

BuildConstituents ==
    /\ pc = "classifications"
    /\ plan' = plan \o <<"nationality_lookup", "constituents_flat",
                         "constituents_nested">>
    /\ materialized' = materialized + Evaluations(ConstituentsCalls)
    /\ pc' = "constituents"
    /\ UNCHANGED <<harvest_terminology, harvest_objects, renames, output>>
    /\ UNCHANGED checkVars

Assemble ==
    /\ pc = "constituents"
    /\ plan' = Append(plan, "enriched")
    /\ materialized' = materialized + Evaluations(AssembleCalls)
    /\ pc' = "assembled"
    /\ UNCHANGED <<harvest_terminology, harvest_objects, renames, output>>
    /\ UNCHANGED checkVars

\* isinstance(x, pl.DataFrame): the tables of the model are its DataFrames
IsDataFrame(x) == DOMAIN x = 1..Len(x)

\* assert isinstance(result, pl.DataFrame): what objects_transform asserts
\* of the collected table before it returns it
ResultAsserted(result) == IsDataFrame(result)

\* result = enriched.collect(engine="streaming"); return result.  collect
\* resolves the names of the plan first and raises when one is not there;
\* nothing is evaluated then and the caller receives no table.  The
\* collected table is returned when the assertion on it holds.  No join of
\* the plan asks for an order (maintain_order), so the engine is free in the
\* order of the rows each join emits.
Collect ==
    /\ pc = "assembled"
    /\ IF Unresolved(harvest_terminology, harvest_objects, renames) # {}
       THEN /\ pc' = "raised"
            /\ UNCHANGED <<materialized, output>>
       ELSE /\ \E cj \in ArrivalOrders(
                            ClassificationsJoined(harvest_terminology,
                                                  harvest_objects, renames),
                            "object_id"),
                  kj \in ArrivalOrders(
                            ConstituentsJoined(harvest_terminology,
                                               harvest_objects, renames),
                            "object_id") :
                  LET assembled == Assembled(harvest_objects, renames, cj, kj)
                  IN  \E pr \in Permutations(1..Len(assembled)) :
                         LET result == Enriched(assembled, pr)
                         IN  IF ResultAsserted(result)
                             THEN /\ output' = [ready |-> TRUE, table |-> result]
                                  /\ pc' = "done"
                             ELSE /\ output' = output
                                  /\ pc' = "raised"
            /\ materialized' = materialized + Evaluations(<<"collect">>)
    /\ UNCHANGED <<harvest_terminology, harvest_objects, renames, plan>>
    /\ UNCHANGED checkVars

Next ==
    \/ Lazy
    \/ BuildClassifications
    \/ BuildConstituents
    \/ Assemble
    \/ Collect

Spec == Init /\ [][Next]_vars

(* ------------- objects_transform on inputs of another shape ------------- *)
\* what an input can lack: a column of the objects table, a field of the
\* elements of a nested column, a column of the terminology table
Droppable ==
    {[in |-> "objects", name |-> c] : c \in HarvestCols}
    \cup {[in |-> "classification_ids", name |-> f] : f \in ClassificationFields}
    \cup {[in |-> "constituents", name |-> f] : f \in ConstituentFields}
    \cup {[in |-> "terminology", name |-> c] : c \in TerminologyCols}

RECURSIVE SetsUpTo(_, _)
SetsUpTo(S, n) ==
    IF n = 0 THEN {{}}
    ELSE LET smaller == SetsUpTo(S, n - 1)
         IN  smaller \cup {s \cup {x} : s \in smaller, x \in S}

Names(missing, in) == {d.name : d \in {x \in missing : x.in = in}}

\* a list cell whose elements lack the fields gone
WithoutFields(v, gone) ==
    [isNull |-> v.isNull,
     items |-> [k \in 1..Len(v.items) |->
                  [f \in DOMAIN v.items[k] \ gone |-> v.items[k][f]]]]

\* the objects table without the columns and nested fields of missing
ObjectsLacking(T, missing) ==
    [i \in 1..Len(T) |->
        [c \in DOMAIN T[i] \ Names(missing, "objects") |->
            IF c \in {"classification_ids", "constituents"}
            THEN WithoutFields(T[i][c], Names(missing, c))
            ELSE T[i][c]]]

TerminologyLacking(L, missing) ==
    [i \in 1..Len(L) |->
        [c \in DOMAIN L[i] \ Names(missing, "terminology") |-> L[i][c]]]

\* harvested tables in which every shape is visible: a terminology with a
\* row, objects with a row, every nested list with an element
ShapedObjects ==
    {T \in ObjectTables(HarvestCols) :
        /\ Len(T) > 0
        /\ \A i \in 1..Len(T) :
              Size(T[i]["classification_ids"]) > 0 /\ Size(T[i]["constituents"]) > 0}
ShapedTerminology == {L \in TermTables : Len(L) > 0}

InitShape ==
    /\ \E missing \in SetsUpTo(Droppable, MaxMissing) :
          /\ harvest_objects \in {ObjectsLacking(T, missing) : T \in ShapedObjects}
          /\ harvest_terminology
                \in {TerminologyLacking(L, missing) : L \in ShapedTerminology}
    /\ pc = "start"
    /\ renames = <<>>
    /\ plan = <<>>
    /\ materialized = 0
    /\ output = NoOutput
    /\ CheckNotRun

ShapeSpec == InitShape /\ [][Next]_vars

(* ------------------ the table handed to the asset check ----------------- *)
\* A DataFrame with its schema: dtype maps each column to its type, rows
\* holds the records.  A type is a scalar type or a list of structs with
\* its fields in order.  A nullable number is a record [isNull, value]; a
\* Float64 is held in tenths (0.5 is 5).
Scalar(type) == [kind |-> type, fields |-> <<>>]
ListOfStruct(fields) == [kind |-> "List(Struct)", fields |-> fields]
Number(v) == [isNull |-> FALSE, value |-> v]
NullNumber == [isNull |-> TRUE, value |-> 0]

\* the columns of the enriched table, in the order of the final select and
\* the two joins
EnrichedCols ==
    <<"object_id", "title", "date_made", "credit_line", "department",
      "dimensions", "media", "classifications", "constituents">>

\* the types the harvest and the transform give these columns
EnrichedDtype ==
    [object_id |-> Scalar("String"),
     title |-> Scalar("String"),
     date_made |-> Scalar("Int64"),
     credit_line |-> Scalar("String"),
     department |-> Scalar("String"),
     dimensions |-> ListOfStruct(<< <<"type", "String">>, <<"value", "Float64">>,
                                    <<"unit", "String">> >>),
     media |-> ListOfStruct(<< <<"type", "String">>, <<"url", "String">>,
                               <<"caption", "String">> >>),
     classifications |-> ListOfStruct(<< <<"type_label", "String">>,
                                         <<"term_label", "String">> >>),
     constituents |-> ListOfStruct(<< <<"name", "String">>, <<"role", "String">>,
                                      <<"birth_year", "Int64">>,
                                      <<"nationality", "String">> >>)]

\* a url is held as its first eight characters and the rest
Url(scheme, rest) == <<scheme, rest>>

\* the identifiers of the records of that table
CheckIds == <<"OBJ-003", "OBJ-005", "OBJ-001", "OBJ-002">>

\* the i-th record of a table that passes every check
SoundRow(i) ==
    [object_id |-> CheckIds[i],
     title |-> FlatValue("title", i),
     date_made |-> Number(FlatValue("date_made", i)),
     credit_line |-> "Gift",
     department |-> "Paintings",
     dimensions |-> List(<<[type |-> "height", value |-> Number(100 * i),
                            unit |-> "cm"]>>),
     media |-> List(<<[type |-> "primary", url |-> Url("https://", CheckIds[i]),
                       caption |-> "front"]>>),
     classifications |-> List(<<[type_label |-> "Painting",
                                 term_label |-> "Oil on canvas"]>>),
     constituents |-> List(<<[name |-> "Claude Monet", role |-> "artist",
                              birth_year |-> Number(1840),
                              nationality |-> "French"]>>)]

\* the other values a cell of row i can hold
CellValues(i) == [c \in Range(EnrichedCols) |->
    CASE c = "object_id" -> {NULL} \cup (IF i > 1 THEN {CheckIds[1]} ELSE {})
      [] c = "title" -> {""}
      [] c = "date_made" -> {NullNumber}
      [] c = "credit_line" -> {NULL}
      [] c = "department" -> {}
      [] c = "dimensions" ->
           { List(<<[type |-> "width", value |-> Number(5), unit |-> "cm"]>>),
             List(<<[type |-> "height", value |-> Number(200), unit |-> "in"]>>),
             List(<<[type |-> "height", value |-> Number(10), unit |-> "cm"]>>),
             List(<<>>) }
      [] c = "media" ->
           { List(<<>>),
             List(<<[type |-> "primary", url |-> Url("http://w", CheckIds[i]),
                     caption |-> "front"]>>) }
      [] c = "classifications" ->
           { List(<<[type_label |-> "Painting", term_label |-> NULL]>>),
             List(<<>>) }
      [] c = "constituents" ->
           { List(<<>>),
             List(<<[name |-> "", role |-> "artist", birth_year |-> Number(1840),
                     nationality |-> "French"]>>),
             List(<<[name |-> "Berthe Morisot", role |-> "maker",
                     birth_year |-> NullNumber, nationality |-> NULL]>>),
             NullList }]

\* the other types a column can have (its cells are held the same way)
OtherDtypes(c) ==
    CASE c = "date_made" -> {Scalar("Float64")}
      [] c = "dimensions" ->
           {ListOfStruct(<< <<"type", "String">>, <<"value", "Int64">>,
                            <<"unit", "String">> >>)}
      [] c = "constituents" ->
           {ListOfStruct(<< <<"name", "String">>, <<"role", "String">>,
                            <<"birth_year", "Float64">>,
                            <<"nationality", "String">> >>)}
      [] OTHER -> {}

\* the variants of a record over the first n columns, each with the number
\* of cells in which it departs from the record sound, at most k; others
\* maps a column to the other values its cell can hold
RECURSIVE RowVariants(_, _, _, _)
RowVariants(sound, others, n, k) ==
    IF n = 0 THEN {[row |-> <<>>, used |-> 0]}
    ELSE LET c == EnrichedCols[n]
         IN  UNION { {[row |-> (c :> sound[c]) @@ r.row, used |-> r.used]}
                     \cup {[row |-> (c :> v) @@ r.row, used |-> r.used + 1] :
                             v \in IF r.used < k THEN others[c] ELSE {}} :
                     r \in RowVariants(sound, others, n - 1, k) }

\* the tables of n rows, each with the number of deviating cells, at most
\* k; others[i] maps the columns to the other values of row i
RECURSIVE RowsVariants(_, _, _)
RowsVariants(others, n, k) ==
    IF n = 0 THEN {[rows |-> <<>>, used |-> 0]}
    ELSE UNION { {[rows |-> Append(t.rows, r.row), used |-> t.used + r.used] :
                    r \in RowVariants(SoundRow(n), others[n], Len(EnrichedCols),
                                      k - t.used)} :
                 t \in RowsVariants(others, n - 1, k) }

\* the schemas over the first n columns: a column has its type, another
\* type, or is not in the table
RECURSIVE DtypeVariants(_, _)
DtypeVariants(n, k) ==
    IF n = 0 THEN {[dtype |-> <<>>, used |-> 0]}
    ELSE LET c == EnrichedCols[n]
         IN  UNION { {[dtype |-> (c :> EnrichedDtype[c]) @@ d.dtype, used |-> d.used]}
                     \cup (IF d.used < k
                           THEN {[dtype |-> d.dtype, used |-> d.used + 1]}
                                \cup {[dtype |-> (c :> t) @@ d.dtype,
                                       used |-> d.used + 1] : t \in OtherDtypes(c)}
                           ELSE {}) :
                     d \in DtypeVariants(n - 1, k) }

\* the DataFrame of the schema dtype and the rows, cut to its columns
DataFrame(dtype, rows) ==
    [dtype |-> dtype,
     rows |-> [i \in 1..Len(rows) |-> [c \in DOMAIN dtype |-> rows[i][c]]]]

CheckTables ==
    UNION { UNION { { DataFrame(d.dtype, t.rows) :
                        d \in DtypeVariants(Len(EnrichedCols), MaxDeviations - t.used) } :
                    t \in RowsVariants([i \in 1..n |-> CellValues(i)], n,
                                     MaxDeviations) } :
            n \in 0..MaxCheckRows }

(* ---------------- polars expressions of the checks ---------------------- *)
\* a Boolean of polars is "true", "false" or NULL; ~, | and & are Kleene's
True == "true"
False == "false"
Boolean(b) == IF b THEN True ELSE False
Not(a) == IF a = NULL THEN NULL ELSE Boolean(a = False)
Or(a, b) ==
    IF a = True \/ b = True THEN True
    ELSE IF a = NULL \/ b = NULL THEN NULL ELSE False
And(a, b) ==
    IF a = False \/ b = False THEN False
    ELSE IF a = NULL \/ b = NULL THEN NULL ELSE True

\* comparisons: null when an operand is null
EqStr(a, s) == IF a = NULL THEN NULL ELSE Boolean(a = s)
Gt(a, n) == IF a.isNull THEN NULL ELSE Boolean(a.value > n)
Lt(a, b) == IF a.isNull \/ b.isNull THEN NULL ELSE Boolean(a.value < b.value)
EqNumber_at_least(a, n) == IF a.isNull THEN NULL ELSE Boolean(a.value >= n)
EqNumber(a, n) == IF a.isNull THEN NULL ELSE Boolean(a.value = n)
IsNotNull(a) == Boolean(a # NULL)
NumberIsNotNull(a) == Boolean(~a.isNull)
\* str.len_chars() and str.starts_with("https://")
LenChars(a) == IF a = NULL THEN NullNumber ELSE Number(Len(a))
StartsWithHttps(u) == Boolean(u[1] = "https://")

\* list.eval(expr): expr on every element; null for a null list
Elements(v) == IF v.isNull THEN {} ELSE Range(v.items)
ListEval(v, expr) ==
    IF v.isNull THEN NullList
    ELSE List([k \in 1..Len(v.items) |-> expr[v.items[k]]])
\* list.len(), list.any(), list.all(), list.sum() of Booleans, list.min()
\* and list.max() of numbers: null for a null list; any, all and sum skip
\* null elements; min and max are null when no element is not null
ListLen(v) == IF v.isNull THEN NullNumber ELSE Number(Len(v.items))
ListAny(v) ==
    IF v.isNull THEN NULL ELSE Boolean(\E k \in 1..Len(v.items) : v.items[k] = True)
ListAll(v) ==
    IF v.isNull THEN NULL ELSE Boolean(\A k \in 1..Len(v.items) : v.items[k] # False)
ListSum(v) ==
    IF v.isNull THEN NullNumber
    ELSE Number(Cardinality({k \in 1..Len(v.items) : v.items[k] = True}))
Known(v) == {v.items[k].value : k \in {j \in 1..Len(v.items) : ~v.items[j].isNull}}
ListMin(v) ==
    IF v.isNull \/ Known(v) = {} THEN NullNumber
    ELSE Number(CHOOSE x \in Known(v) : \A y \in Known(v) : x <= y)
ListMax(v) ==
    IF v.isNull \/ Known(v) = {} THEN NullNumber
    ELSE Number(CHOOSE x \in Known(v) : \A y \in Known(v) : x >= y)

(* ----------------------- schema.py and pandera -------------------------- *)
\* pa.Column(dtype, checks, nullable, unique)
Column(name, dtype, nullable, unique, checks) ==
    [name |-> name, dtype |-> dtype, nullable |-> nullable, unique |-> unique,
     checks |-> checks]

\* object_transform_schema.columns, in the order of the dict
object_transform_schema ==
    << Column("object_id", Scalar("String"), FALSE, TRUE, <<>>),
       Column("title", Scalar("String"), FALSE, FALSE, <<"str_length">>),
       Column("date_made", Scalar("Int64"), TRUE, FALSE, <<>>),
       Column("credit_line", Scalar("String"), FALSE, FALSE, <<>>),
       Column("department", Scalar("String"), FALSE, FALSE, <<>>),
       Column("dimensions",
              ListOfStruct(<< <<"type", "String">>, <<"value", "Float64">>,
                              <<"unit", "String">> >>),
              FALSE, FALSE,
              <<"all_dimension_values_gt_1", "has_height_dimension",
                "all_units_are_cm">>),
       Column("media",
              ListOfStruct(<< <<"type", "String">>, <<"url", "String">>,
                              <<"caption", "String">> >>),
              FALSE, FALSE,
              <<"all_urls_are_https", "has_primary_image",
                "has_at_least_one_image">>),
       Column("classifications",
              ListOfStruct(<< <<"type_label", "String">>,
                              <<"term_label", "String">> >>),
              FALSE, FALSE,
              <<"no_null_labels_in_classifications">>),
       Column("constituents",
              ListOfStruct(<< <<"name", "String">>, <<"role", "String">>,
                              <<"birth_year", "Int64">>,
                              <<"nationality", "String">> >>),
              FALSE, FALSE,
              <<"has_at_least_one_constituent", "no_empty_constituent_names",
                "has_at_least_one_artist">>) >>

\* the Boolean a check function gives for the cell v of one row
CheckFn(check, v) ==
    CASE check = "str_length" ->
           \* pa.Check.str_length(min_value=1)
           LET n == LenChars(v) IN IF n.isNull THEN NULL ELSE Boolean(n.value >= 1)
      [] check = "all_dimension_values_gt_1" ->
           Gt(ListMin(ListEval(v, [e \in Elements(v) |-> e.value])), 10)
      [] check = "has_height_dimension" ->
           ListAny(ListEval(v, [e \in Elements(v) |-> EqStr(e.type, "height")]))
      [] check = "all_units_are_cm" ->
           ListAll(ListEval(v, [e \in Elements(v) |-> EqStr(e.unit, "cm")]))
      [] check = "all_urls_are_https" ->
           ListAll(ListEval(v, [e \in Elements(v) |-> StartsWithHttps(e.url)]))
      [] check = "has_primary_image" ->
           EqNumber(ListSum(ListEval(v, [e \in Elements(v) |->
                                            EqStr(e.type, "primary")])), 1)
      [] check = "has_at_least_one_image" -> Gt(ListLen(v), 0)
      [] check = "no_null_labels_in_classifications" ->
           ListAll(ListEval(v, [e \in Elements(v) |-> IsNotNull(e.term_label)]))
      [] check = "has_at_least_one_constituent" -> Gt(ListLen(v), 0)
      [] check = "no_empty_constituent_names" ->
           ListAll(ListEval(v, [e \in Elements(v) |-> Gt(LenChars(e.name), 0)]))
      [] check = "has_at_least_one_artist" ->
           ListAny(ListEval(v, [e \in Elements(v) |-> EqStr(e.role, "artist")]))

\* a cell is null; the cells of a column are held by the kind of its type
IsNullCell(v, dtype) ==
    IF dtype.kind = "String" THEN v = NULL ELSE v.isNull

\* str(e.check) of the SchemaError of a core check and of a Check
CoreCheckStr(check) == <<check>>
DtypeCheckStr(dtype) == <<"dtype('", dtype.kind, "')">>
CheckStr(check) ==
    IF check = "str_length"
    THEN <<"<Check ", check, ": ", "str_length(1, None)", ">">>
    ELSE <<"<Check ", check, ">">>

NoFailure == [failed |-> FALSE, check |-> <<>>]
Failure(check) == [failed |-> TRUE, check |-> check]

\* the checks of the column that fail on df: a check passes when no row
\* gives false (a row that gives null is ignored)
FailedChecks(column, df) ==
    SelectSeq(column.checks,
              LAMBDA check : \E i \in 1..Len(df.rows) :
                                CheckFn(check, df.rows[i][column.name]) = False)

FirstFailure_last(column, df) ==
    LET failed == FailedChecks(column, df)
    IN  IF failed = <<>> THEN NoFailure ELSE Failure(CheckStr(failed[Len(failed)]))

\* run_checks with lazy=False: the first check that fails raises
FirstFailure(column, df) ==
    LET failed == FailedChecks(column, df)
    IN  IF failed = <<>> THEN NoFailure ELSE Failure(CheckStr(Head(failed)))

Validate_coerce(column, df) ==
    IF column.name \in DOMAIN df.dtype
    THEN FirstFailure(column, df)
    ELSE Failure(CoreCheckStr("column_in_dataframe"))

\* pa.DataFrameSchema({col_name: column}).validate(df, lazy=False): the
\* SchemaError it raises, if any.  Nothing is coerced (the one-column
\* schema has coerce=False); the column must be in the table, then its
\* nulls, its uniqueness and its type are checked, then its checks in
\* order, and the first failure raises.
Validate(column, df) ==
    LET c == column.name
        cells == [i \in 1..Len(df.rows) |-> df.rows[i][c]]
    IN  IF c \notin DOMAIN df.dtype
        THEN Failure(CoreCheckStr("column_in_dataframe"))
        ELSE IF ~column.nullable
                /\ \E i \in 1..Len(cells) : IsNullCell(cells[i], column.dtype)
        THEN Failure(CoreCheckStr("not_nullable"))
        ELSE IF column.unique
                /\ \E i, j \in 1..Len(cells) : i # j /\ cells[i] = cells[j]
        THEN Failure(CoreCheckStr("field_uniqueness"))
        ELSE IF df.dtype[c] # column.dtype
        THEN Failure(DtypeCheckStr(column.dtype))
        ELSE FirstFailure(column, df)

\* main: the entries of errors whose (column, check) no earlier entry has
RECURSIVE Deduplicated(_)
Deduplicated(errs) ==
    IF errs = <<>> THEN <<>>
    ELSE LET before == Deduplicated(SubSeq(errs, 1, Len(errs) - 1))
             err == errs[Len(errs)]
         IN  IF \E k \in 1..Len(before) :
                    before[k].column = err.column /\ before[k].check = err.check
             THEN before
             ELSE Append(before, err)

(* --------------------- check_objects_transform -------------------------- *)
\* the transform is not running
TransformIdle ==
    /\ harvest_terminology = <<>>
    /\ harvest_objects = <<>>
    /\ pc = "idle"
    /\ renames = <<>>
    /\ plan = <<>>
    /\ materialized = 0
    /\ output = NoOutput

InitCheck ==
    /\ TransformIdle
    /\ objects_transform \in CheckTables
    /\ check_pc = [state |-> "not_run", column |-> 0]
    /\ errors = <<>>
    /\ check_result = NoResult
    /\ unique_errors = <<>>
    /\ check_output = <<>>

\* errors = []
CheckStart ==
    /\ check_pc.state = "not_run"
    /\ errors' = <<>>
    /\ check_pc' = [state |-> "running", column |-> 1]
    /\ UNCHANGED <<objects_transform, check_result, unique_errors, check_output>>
    /\ UNCHANGED transformVars

ValidateColumn_in_place ==
    /\ check_pc.state = "running"
    /\ check_pc.column <= Len(object_transform_schema)
    /\ LET column == object_transform_schema[check_pc.column]
           e == Validate(column, objects_transform)
       IN  /\ errors' = IF e.failed
                        THEN Append(errors, [column |-> column.name,
                                             check |-> e.check])
                        ELSE errors
           /\ objects_transform' =
                 IF column.name \in DOMAIN objects_transform.dtype
                 THEN [objects_transform EXCEPT !.dtype[column.name] = column.dtype]
                 ELSE objects_transform
    /\ check_pc' = [check_pc EXCEPT !.column = @ + 1]
    /\ UNCHANGED <<check_result, unique_errors, check_output>>
    /\ UNCHANGED transformVars

\* one turn of the loop over object_transform_schema.columns.items(); the
\* table validate returns is dropped
ValidateColumn ==
    /\ check_pc.state = "running"
    /\ check_pc.column <= Len(object_transform_schema)
    /\ LET column == object_transform_schema[check_pc.column]
           e == Validate(column, objects_transform)
       IN  errors' = IF e.failed
                     THEN Append(errors, [column |-> column.name, check |-> e.check])
                     ELSE errors
    /\ check_pc' = [check_pc EXCEPT !.column = @ + 1]
    /\ UNCHANGED <<objects_transform, check_result, unique_errors, check_output>>
    /\ UNCHANGED transformVars

CheckResult_passed(errs) == [returned |-> TRUE, passed |-> TRUE, errors |-> errs]

\* (True, []) if not errors else (False, errors)
CheckResult(errs) ==
    IF errs = <<>>
    THEN [returned |-> TRUE, passed |-> TRUE, errors |-> <<>>]
    ELSE [returned |-> TRUE, passed |-> FALSE, errors |-> errs]

\* return (True, []) if not errors else (False, errors)
CheckReturn ==
    /\ check_pc.state = "running"
    /\ check_pc.column > Len(object_transform_schema)
    /\ check_result' = CheckResult(errors)
    /\ check_pc' = [check_pc EXCEPT !.state = "returned"]
    /\ UNCHANGED <<objects_transform, errors, unique_errors, check_output>>
    /\ UNCHANGED transformVars

\* main: passed, errors = check_objects_transform(transform_df); the
\* errors are deduplicated for the report when the check did not pass
Report ==
    /\ check_pc.state = "returned"
    /\ unique_errors' = IF check_result.passed THEN <<>>
                        ELSE Deduplicated(check_result.errors)
    /\ check_pc' = [check_pc EXCEPT !.state = "reported"]
    /\ UNCHANGED <<objects_transform, errors, check_result, check_output>>
    /\ UNCHANGED transformVars

NextCheck ==
    \/ CheckStart
    \/ ValidateColumn
    \/ CheckReturn
    \/ Report

CheckSpec == InitCheck /\ [][NextCheck]_vars

(* ------------- the dataframe checks of ObjectTransformSchema ------------ *)
\* the other values the cells read by the dataframe checks can hold
DataframeCheckValues(i) == [c \in Range(EnrichedCols) |->
    CASE c = "department" -> {"Sculpture", NULL}
      [] c = "date_made" -> {NullNumber, Number(1840), Number(1800)}
      [] c = "dimensions" ->
           { List(<<[type |-> "depth", value |-> Number(30), unit |-> "cm"]>>),
             List(<<[type |-> NULL, value |-> Number(30), unit |-> "cm"]>>),
             List(<<>>),
             NullList }
      [] c = "constituents" ->
           { List(<<>>),
             NullList,
             List(<<[name |-> "Berthe Morisot", role |-> "maker",
                     birth_year |-> NullNumber, nationality |-> NULL]>>),
             List(<<[name |-> "Claude Monet", role |-> "artist",
                     birth_year |-> NullNumber, nationality |-> "French"],
                    [name |-> "Auguste Rodin", role |-> "maker",
                     birth_year |-> Number(1840), nationality |-> "French"]>>),
             List(<<[name |-> "Claude Monet", role |-> "artist",
                     birth_year |-> Number(1840), nationality |-> "French"],
                    [name |-> "Frida Kahlo", role |-> "maker",
                     birth_year |-> Number(1907), nationality |-> NULL]>>) }
      [] OTHER -> {}]

\* the tables the dataframe checks are given
DataframeCheckTables ==
    UNION { {DataFrame(EnrichedDtype, t.rows) :
                t \in RowsVariants([i \in 1..n |-> DataframeCheckValues(i)],
                                 n, MaxDeviations)} :
            n \in 1..MaxCheckRows }

\* sculpture_has_depth: the Series ~is_sculpture | has_depth
sculpture_has_depth(df) ==
    LET is_sculpture == [i \in 1..Len(df.rows) |->
                            EqStr(df.rows[i].department, "Sculpture")]
        has_depth == [i \in 1..Len(df.rows) |->
                         LET v == df.rows[i].dimensions
                         IN  ListAny(ListEval(v, [e \in Elements(v) |->
                                                     EqStr(e.type, "depth")]))]
    IN  [i \in 1..Len(df.rows) |-> Or(Not(is_sculpture[i]), has_depth[i])]

birth_before_creation_unguarded(df) ==
    [i \in 1..Len(df.rows) |->
        LET v == df.rows[i].constituents
        IN  Lt(ListMax(ListEval(v, [e \in Elements(v) |-> e.birth_year])),
               df.rows[i].date_made)]

\* birth_before_creation: the Series ~both_known | valid_where_known
birth_before_creation(df) ==
    LET date_made == [i \in 1..Len(df.rows) |-> df.rows[i].date_made]
        max_birth == [i \in 1..Len(df.rows) |->
                         LET v == df.rows[i].constituents
                         IN  ListMax(ListEval(v, [e \in Elements(v) |->
                                                     e.birth_year]))]
        both_known == [i \in 1..Len(df.rows) |->
                          And(NumberIsNotNull(date_made[i]),
                              NumberIsNotNull(max_birth[i]))]
        valid_where_known == [i \in 1..Len(df.rows) |->
                                 Lt(max_birth[i], date_made[i])]
    IN  [i \in 1..Len(df.rows) |-> Or(Not(both_known[i]), valid_where_known[i])]

InitDataframeCheck ==
    /\ TransformIdle
    /\ objects_transform \in DataframeCheckTables
    /\ check_pc = [state |-> "not_run", column |-> 0]
    /\ errors = <<>>
    /\ check_result = NoResult
    /\ unique_errors = <<>>
    /\ check_output = <<>>

\* the check named sculpture_must_have_depth is evaluated on the table
SculptureHasDepth ==
    /\ "sculpture_must_have_depth" \notin DOMAIN check_output
    /\ check_output' = ("sculpture_must_have_depth" :>
                            sculpture_has_depth(objects_transform)) @@ check_output
    /\ UNCHANGED <<objects_transform, check_pc, errors, check_result,
                   unique_errors>>
    /\ UNCHANGED transformVars

\* the check named constituent_born_before_artwork is evaluated on the table
BirthBeforeCreation ==
    /\ "constituent_born_before_artwork" \notin DOMAIN check_output
    /\ check_output' = ("constituent_born_before_artwork" :>
                            birth_before_creation(objects_transform)) @@ check_output
    /\ UNCHANGED <<objects_transform, check_pc, errors, check_result,
                   unique_errors>>
    /\ UNCHANGED transformVars

NextDataframeCheck ==
    \/ SculptureHasDepth
    \/ BirthBeforeCreation

DataframeCheckSpec == InitDataframeCheck /\ [][NextDataframeCheck]_vars

(* ---------- the column predicates of the two schema variants ------------ *)
\* a column of the DataFrameModel ObjectTransformSchema with the names of
\* its checks: those of its Field first, then the @pa.check functions
Field(name, nullable, unique, checks) ==
    [name |-> name, nullable |-> nullable, unique |-> unique, checks |-> checks]

ObjectTransformSchema ==
    << Field("object_id", FALSE, TRUE, <<>>),
       Field("title", FALSE, FALSE, <<"str_length">>),
       Field("date_made", TRUE, FALSE,
             <<"greater_than_or_equal_to", "less_than_or_equal_to">>),
       Field("credit_line", FALSE, FALSE, <<>>),
       Field("department", FALSE, FALSE, <<>>),
       Field("dimensions", FALSE, FALSE,
             <<"all_dimension_values_gt_1", "has_height_dimension",
               "all_units_are_cm">>),
       Field("media", FALSE, FALSE,
             <<"has_at_least_one_image", "all_urls_are_https",
               "has_primary_image">>),
       Field("classifications", FALSE, FALSE,
             <<"no_null_labels_in_classifications">>),
       Field("constituents", FALSE, FALSE,
             <<"has_at_least_one_constituent", "no_empty_constituent_names",
               "has_at_least_one_artist">>) >>

\* the Boolean a check of ObjectTransformSchema gives for the cell v of one
\* row of the Series col
ModelCheckFn(check, v) ==
    CASE check = "str_length" ->
           LET n == LenChars(v) IN IF n.isNull THEN NULL ELSE Boolean(n.value >= 1)
      [] check = "greater_than_or_equal_to" ->
           IF v.isNull THEN NULL ELSE Boolean(v.value >= 0)
      [] check = "less_than_or_equal_to" ->
           IF v.isNull THEN NULL ELSE Boolean(v.value <= 2100)
      [] check = "has_at_least_one_constituent" -> Gt(ListLen(v), 0)
      [] check = "has_at_least_one_image" -> Gt(ListLen(v), 0)
      [] check = "all_dimension_values_gt_1" ->
           Gt(ListMin(ListEval(v, [e \in Elements(v) |-> e.value])), 10)
      [] check = "has_height_dimension" ->
           ListAny(ListEval(v, [e \in Elements(v) |-> EqStr(e.type, "height")]))
      [] check = "all_units_are_cm" ->
           ListAll(ListEval(v, [e \in Elements(v) |-> EqStr(e.unit, "cm")]))
      [] check = "all_urls_are_https" ->
           ListAll(ListEval(v, [e \in Elements(v) |-> StartsWithHttps(e.url)]))
      [] check = "has_primary_image" ->
           EqNumber(ListSum(ListEval(v, [e \in Elements(v) |->
                                            EqStr(e.type, "primary")])), 1)
      [] check = "no_empty_constituent_names" ->
           LET has_items == Gt(ListLen(v), 0)
               names_ok == ListAll(ListEval(v, [e \in Elements(v) |->
                                                   Gt(LenChars(e.name), 0)]))
           IN  Or(Not(has_items), names_ok)
      [] check = "has_at_least_one_artist" ->
           LET has_items == Gt(ListLen(v), 0)
               has_artist_role ==
                   ListAny(ListEval(v, [e \in Elements(v) |->
                                           EqStr(e.role, "artist")]))
           IN  Or(Not(has_items), has_artist_role)
      [] check = "no_null_labels_in_classifications" ->
           LET has_items == Gt(ListLen(v), 0)
               no_nulls == ListAll(ListEval(v, [e \in Elements(v) |->
                                                   IsNotNull(e.term_label)]))
           IN  Or(Not(has_items), no_nulls)

\* the names of the checks of a schema and the column each is declared on
CheckNames(schema) == UNION {Range(schema[n].checks) : n \in 1..Len(schema)}
ColumnOf(schema, check) ==
    schema[CHOOSE n \in 1..Len(schema) : check \in Range(schema[n].checks)].name

\* the other values the cells the predicates read can hold
PredicateValues(i) == [c \in Range(EnrichedCols) |->
    CellValues(i)[c] \cup
    CASE c = "date_made" -> {Number(2200)}
      [] c = "media" ->
           { List(<<[type |-> "detail", url |-> Url("https://", CheckIds[i]),
                     caption |-> "back"]>>),
             List(<<[type |-> "primary", url |-> Url("https://", CheckIds[i]),
                     caption |-> "front"],
                    [type |-> "primary", url |-> Url("https://", CheckIds[i]),
                     caption |-> "back"]>>),
             List(<<[type |-> "primary", url |-> Url("https://", CheckIds[i]),
                     caption |-> "front"],
                    [type |-> "detail", url |-> Url("https://", CheckIds[i]),
                     caption |-> "back"]>>) }
      [] c = "classifications" ->
           { List(<<[type_label |-> NULL, term_label |-> "Oil on canvas"]>>),
             List(<<[type_label |-> "Painting", term_label |-> "Oil on canvas"],
                    [type_label |-> "Painting", term_label |-> NULL]>>) }
      [] c = "constituents" ->
           { List(<<[name |-> "Berthe Morisot", role |-> "maker",
                     birth_year |-> Number(1841), nationality |-> "French"],
                    [name |-> "Claude Monet", role |-> "artist",
                     birth_year |-> Number(1840), nationality |-> "French"]>>) }
      [] OTHER -> {}]

\* the tables the predicates are evaluated on
PredicateTables ==
    UNION { {DataFrame(EnrichedDtype, t.rows) :
                t \in RowsVariants([i \in 1..n |-> PredicateValues(i)],
                                   n, MaxDeviations)} :
            n \in 1..MaxCheckRows }

InitPredicates ==
    /\ TransformIdle
    /\ objects_transform \in PredicateTables
    /\ check_pc = [state |-> "not_run", column |-> 0]
    /\ errors = <<>>
    /\ check_result = NoResult
    /\ unique_errors = <<>>
    /\ check_output = <<>>

\* every check of object_transform_schema (schema.py) is evaluated on its
\* column: one Boolean for each row
SchemaPredicates ==
    /\ "object_transform_schema" \notin DOMAIN check_output
    /\ check_output' =
          ("object_transform_schema" :>
              [check \in CheckNames(object_transform_schema) |->
                  [i \in 1..Len(objects_transform.rows) |->
                      CheckFn(check,
                              objects_transform.rows[i][
                                  ColumnOf(object_transform_schema, check)])]])
          @@ check_output
    /\ UNCHANGED <<objects_transform, check_pc, errors, check_result,
                   unique_errors>>
    /\ UNCHANGED transformVars

\* every column check of ObjectTransformSchema (pipeline.py) is evaluated on
\* its column
ModelPredicates ==
    /\ "ObjectTransformSchema" \notin DOMAIN check_output
    /\ check_output' =
          ("ObjectTransformSchema" :>
              [check \in CheckNames(ObjectTransformSchema) |->
                  [i \in 1..Len(objects_transform.rows) |->
                      ModelCheckFn(check,
                                   objects_transform.rows[i][
                                       ColumnOf(ObjectTransformSchema, check)])]])
          @@ check_output
    /\ UNCHANGED <<objects_transform, check_pc, errors, check_result,
                   unique_errors>>
    /\ UNCHANGED transformVars

NextPredicates ==
    \/ SchemaPredicates
    \/ ModelPredicates

PredicateSpec == InitPredicates /\ [][NextPredicates]_vars

(* ----------------------- main, from the check on ----------------------- *)
\* output_path = objects_output(transform_df): main calls it after the
\* report of the check, on either branch of "if passed"; the records are
\* written to objects.json
ObjectsOutput ==
    /\ check_pc.state = "reported"
    /\ check_pc' = [check_pc EXCEPT !.state = "output_written"]
    /\ UNCHANGED <<objects_transform, errors, check_result, unique_errors,
                   check_output>>
    /\ UNCHANGED transformVars

NextMain ==
    \/ NextCheck
    \/ ObjectsOutput

MainSpec == InitCheck /\ [][NextMain]_vars

(* ------------- calls of objects_transform and of the check -------------- *)
\* a step of a call of objects_transform
TransformCall == pc # "idle" /\ Next

\* a step of a call of check_objects_transform
CheckCall == pc = "idle" /\ NextCheck

\* a call of either function, on its own arguments
InitCalls == Init \/ InitCheck

NextCalls ==
    \/ TransformCall
    \/ CheckCall

CallsSpec == InitCalls /\ [][NextCalls]_vars

(* ----------------------- vocabulary of the claims ----------------------- *)
Done == pc = "done"
Out == output.table

\* the cells of an input row, under either source format's column names
ObjId(r) == IF "id" \in DOMAIN r THEN r["id"] ELSE r["object_id"]
ClassIds(r) ==
    IF "classifications" \in DOMAIN r THEN r["classifications"]
    ELSE r["classification_ids"]

InRows == 1..Len(harvest_objects)
OutRows == 1..Len(Out)
\* the output rows that carry the identifier of input row i
OutRowsOf(i) == {j \in OutRows : Out[j]["object_id"] = ObjId(harvest_objects[i])}

CountOf(s, x) == Cardinality({k \in 1..Len(s) : s[k] = x})

\* the labels the terminology gives an identifier; the nationality view
\* holds only the rows of term_type nationality
LabelsOf(id) ==
    {harvest_terminology[i].label :
        i \in {n \in 1..Len(harvest_terminology) :
                 id # NULL /\ harvest_terminology[n].term_id = id}}
NationalitiesOf(id) ==
    {harvest_terminology[i].label :
        i \in {n \in 1..Len(harvest_terminology) :
                 /\ id # NULL
                 /\ harvest_terminology[n].term_id = id
                 /\ harvest_terminology[n].term_type = "nationality"}}
OrNull(labels) == IF labels = {} THEN {NULL} ELSE labels

\* the enriched elements an input element may become
EnrichedClass(e) ==
    {[type_label |-> a, term_label |-> b] :
        a \in OrNull(LabelsOf(e.type_id)), b \in OrNull(LabelsOf(e.term_id))}
EnrichedConst(e) ==
    {[name |-> e.name, role |-> e.role, birth_year |-> e.birth_year,
      nationality |-> n] : n \in OrNull(NationalitiesOf(e.nationality_id))}

HasDuplicateTermId ==
    \E i, j \in 1..Len(harvest_terminology) :
        i # j /\ harvest_terminology[i].term_id = harvest_terminology[j].term_id

(* C1: objects_transform returns exactly as many rows as the objects     *)
(* table it was given, whatever the terminology and the nested lists hold. *)
C1_RowCountPreserved == Done => Len(Out) = Len(harvest_objects)

\* two objects, one with a null list and one with an element that two
\* terminology rows match
C1_Witness ==
    /\ Done
    /\ Len(harvest_objects) = 2
    /\ HasDuplicateTermId
    /\ \E i \in InRows : ClassIds(harvest_objects[i]).isNull
    /\ \E i \in InRows :
          \E k \in 1..Size(ClassIds(harvest_objects[i])) :
             Cardinality(EnrichedClass(ClassIds(harvest_objects[i]).items[k])) > 1

(* C2: every object_id occurs in the output exactly as often as in the   *)
(* input objects table, and no other object_id occurs in the output.       *)
C2_IdentifiersPreserved ==
    Done =>
        \A id \in {ObjId(harvest_objects[i]) : i \in InRows}
                  \cup {Out[j]["object_id"] : j \in OutRows} :
            Cardinality({i \in InRows : ObjId(harvest_objects[i]) = id})
                = Cardinality({j \in OutRows : Out[j]["object_id"] = id})

\* an identifier that two input rows share, both with elements to join
C2_Witness ==
    /\ Done
    /\ \E i, j \in InRows :
          /\ i # j
          /\ ObjId(harvest_objects[i]) = ObjId(harvest_objects[j])
          /\ Size(ClassIds(harvest_objects[i])) > 0
          /\ Size(harvest_objects[j]["constituents"]) > 0

\* s holds, in this order and possibly among other elements, one element of
\* each of the sets pats[1], pats[2], ...
RECURSIVE Embeds(_, _)
Embeds(pats, s) ==
    IF pats = <<>> THEN TRUE
    ELSE IF s = <<>> THEN FALSE
    ELSE IF Head(s) \in Head(pats) THEN Embeds(Tail(pats), Tail(s))
    ELSE Embeds(pats, Tail(s))

(* C3: the enriched list of a row lists the enriched elements in the     *)
(* relative order of the elements e1, ..., en of the row's input list.     *)
C3_OrderPreserved ==
    Done =>
        \A i \in InRows : \A j \in OutRowsOf(i) :
            LET cl == ClassIds(harvest_objects[i])
                co == harvest_objects[i]["constituents"]
            IN  /\ Embeds([k \in 1..Size(cl) |-> EnrichedClass(cl.items[k])],
                          Out[j]["classifications"].items)
                /\ Embeds([k \in 1..Size(co) |-> EnrichedConst(co.items[k])],
                          Out[j]["constituents"].items)

(* C4: the enriched column of a row has exactly as many elements as the  *)
(* row's original nested column.                                           *)
C4_SameCardinality ==
    Done =>
        \A i \in InRows : \A j \in OutRowsOf(i) :
            /\ Len(Out[j]["classifications"].items)
                 = Size(ClassIds(harvest_objects[i]))
            /\ Len(Out[j]["constituents"].items)
                 = Size(harvest_objects[i]["constituents"])

(* C5: a row whose nested column is an empty list is present in the      *)
(* output and has an empty list, not null, in the enriched column.         *)
C5_EmptyStaysEmpty ==
    Done =>
        \A i \in InRows :
            /\ OutRowsOf(i) # {}
            /\ ClassIds(harvest_objects[i]) = List(<<>>) =>
                 \A j \in OutRowsOf(i) : Out[j]["classifications"] = List(<<>>)
            /\ harvest_objects[i]["constituents"] = List(<<>>) =>
                 \A j \in OutRowsOf(i) : Out[j]["constituents"] = List(<<>>)

(* C6: in the returned table classifications and constituents are lists, *)
(* possibly empty, and never null, in every row.                           *)
C6_NeverNull ==
    Done =>
        \A j \in OutRows :
            /\ ~Out[j]["classifications"].isNull
            /\ ~Out[j]["constituents"].isNull

\* a row with a null list, and a row whose list is empty so that the
\* re-nested table has no row for it
C6_Witness ==
    /\ Done
    /\ \E i \in InRows : ClassIds(harvest_objects[i]).isNull
    /\ \E i \in InRows : harvest_objects[i]["constituents"] = List(<<>>)
    /\ \E j \in OutRows : Out[j]["classifications"] = List(<<>>)

(* C7: an element whose foreign key is null or has no match in the       *)
(* lookup stays in its row's list with a null label, and the row stays.    *)
C7_UnmatchedKeyGivesNullLabel ==
    Done =>
        \A i \in InRows :
            LET cl == ClassIds(harvest_objects[i])
                co == harvest_objects[i]["constituents"]
            IN  /\ OutRowsOf(i) # {}
                /\ \A j \in OutRowsOf(i) :
                    /\ \A k \in 1..Size(cl) :
                        /\ LabelsOf(cl.items[k].type_id) = {} =>
                             \E x \in Range(Out[j]["classifications"].items) :
                                x \in EnrichedClass(cl.items[k]) /\ x.type_label = NULL
                        /\ LabelsOf(cl.items[k].term_id) = {} =>
                             \E x \in Range(Out[j]["classifications"].items) :
                                x \in EnrichedClass(cl.items[k]) /\ x.term_label = NULL
                    /\ \A k \in 1..Size(co) :
                        NationalitiesOf(co.items[k].nationality_id) = {} =>
                            \E x \in Range(Out[j]["constituents"].items) :
                                x \in EnrichedConst(co.items[k]) /\ x.nationality = NULL

\* one element with a null type_id and a term_id the lookup does not hold,
\* enriched to an element of two null labels
C7_Witness ==
    /\ Done
    /\ \E i \in InRows :
          \E k \in 1..Size(ClassIds(harvest_objects[i])) :
             LET e == ClassIds(harvest_objects[i]).items[k]
             IN  /\ e.type_id = NULL
                 /\ e.term_id # NULL
                 /\ LabelsOf(e.term_id) = {}
                 /\ \E j \in OutRowsOf(i) :
                      [type_label |-> NULL, term_label |-> NULL]
                          \in Range(Out[j]["classifications"].items)

\* the number of terminology rows with this identifier
TermCount(id) ==
    Cardinality({n \in 1..Len(harvest_terminology) :
                    id # NULL /\ harvest_terminology[n].term_id = id})
TheLabel(id) == CHOOSE l \in LabelsOf(id) : TRUE
Resolved(e) == [type_label |-> TheLabel(e.type_id), term_label |-> TheLabel(e.term_id)]

(* C8: a classification element {type_id: a, term_id: b} gives, in its   *)
(* row's classifications, the element {type_label: label of the row with   *)
(* term_id a, term_label: label of the row with term_id b}; where nothing  *)
(* else feeds the list, it gives that element exactly once per occurrence. *)
C8_LabelsResolved ==
    Done =>
        \A i \in InRows :
            LET cl == ClassIds(harvest_objects[i])
                alone == /\ \A h \in InRows :
                               ObjId(harvest_objects[h]) = ObjId(harvest_objects[i])
                                   => h = i
                         /\ \A k \in 1..Size(cl) :
                               /\ TermCount(cl.items[k].type_id) = 1
                               /\ TermCount(cl.items[k].term_id) = 1
            IN  \A k \in 1..Size(cl) :
                   (TermCount(cl.items[k].type_id) = 1
                        /\ TermCount(cl.items[k].term_id) = 1) =>
                      \A j \in OutRowsOf(i) :
                         /\ Resolved(cl.items[k])
                                \in Range(Out[j]["classifications"].items)
                         /\ alone =>
                              CountOf(Out[j]["classifications"].items,
                                      Resolved(cl.items[k]))
                                = CountOf(cl.items, cl.items[k])

\* type_id T1 and term_id T9 with T1 -> Painting and T9 -> Oil on canvas
C8_Witness ==
    /\ Done
    /\ harvest_terminology =
         << [term_id |-> "T1", term_type |-> "object_type", label |-> "Painting"],
            [term_id |-> "T9", term_type |-> "medium", label |-> "Oil on canvas"] >>
    /\ \E i \in InRows :
          /\ ObjId(harvest_objects[i]) = "OBJ-001"
          /\ ClassIds(harvest_objects[i]) = List(<<[type_id |-> "T1", term_id |-> "T9"]>>)
          /\ \A j \in OutRowsOf(i) :
                Out[j]["classifications"]
                    = List(<<[type_label |-> "Painting", term_label |-> "Oil on canvas"]>>)

\* the columns of the objects table that receive an enrichment
EnrichmentTargets == {"classifications", "classification_ids", "constituents"}

(* C9: every input column that is not the target of an enrichment is in  *)
(* the output under its name, with the input's value row for row (the      *)
(* identifier column under its normalized name object_id).                 *)
C9_PassThrough ==
    Done =>
        /\ Len(Out) = Len(harvest_objects)
        /\ \A i \in InRows :
              \A c \in (DOMAIN harvest_objects[i]) \ EnrichmentTargets :
                 LET name == IF c = "id" THEN "object_id" ELSE c
                 IN  /\ name \in DOMAIN Out[i]
                     /\ Out[i][name] = harvest_objects[i][c]

(* C10: the plan is built without evaluating anything, it is evaluated   *)
(* exactly once, by the terminal collect, and the caller sees no table     *)
(* before that call returns.                                               *)
C10_SingleMaterialization ==
    /\ pc # "done" => materialized = 0 /\ output = NoOutput
    /\ pc = "done" => materialized = 1 /\ output.ready

\* the whole plan was built and collect returned two enriched rows
C10_Witness ==
    /\ Done
    /\ Len(plan) = 10
    /\ materialized = 1
    /\ Len(Out) = 2
    /\ \E j \in OutRows : Out[j]["classifications"].items # <<>>

\* an input table lacks a name the enrichment refers to: a column of objects
\* (the identifier under either of its names), a field of the elements of a
\* nested column, or a column of terminology
InputLacksName ==
    \/ /\ harvest_objects # <<>>
       /\ LET cols == DOMAIN harvest_objects[1]
          IN  \/ cols \cap {"id", "object_id"} = {}
              \/ cols \cap {"classifications", "classification_ids"} = {}
              \/ ~({"constituents", "title", "date_made", "credit_line",
                     "department", "dimensions", "media"} \subseteq cols)
    \/ \E i \in InRows :
          \/ /\ DOMAIN harvest_objects[i]
                    \cap {"classifications", "classification_ids"} # {}
             /\ \E e \in Range(ClassIds(harvest_objects[i]).items) :
                   ~({"type_id", "term_id"} \subseteq DOMAIN e)
          \/ /\ "constituents" \in DOMAIN harvest_objects[i]
             /\ \E e \in Range(harvest_objects[i]["constituents"].items) :
                   ~({"name", "role", "birth_year", "nationality_id"}
                        \subseteq DOMAIN e)
    \/ /\ harvest_terminology # <<>>
       /\ ~({"term_id", "term_type", "label"} \subseteq DOMAIN harvest_terminology[1])

(* C11: when an input table lacks a column or nested field that the      *)
(* enrichment refers to, objects_transform fails while the plan is being   *)
(* built: the run never gets as far as the terminal collect with the whole *)
(* plan built, it does not fail in that call, and it returns no table.     *)
C11_FailsWhileBuilding ==
    InputLacksName =>
        /\ pc \notin {"assembled", "done"}
        /\ pc = "raised" => Len(plan) < 10

\* the returned table with its last row lost, and with a row twice
Miscounted(t) ==
    IF t = <<>> THEN {} ELSE {SubSeq(t, 1, Len(t) - 1), Append(t, t[1])}

(* C12: before it returns, objects_transform checks that the collected   *)
(* table has as many rows as the input objects table: the check it makes   *)
(* on the collected table rejects a table with a row lost or a row extra.  *)
C12_RowCountPostCondition ==
    Done =>
        \A t \in Miscounted(Out) :
            Len(t) # Len(harvest_objects) => ~ResultAsserted(t)

(* ------------- vocabulary of the claims on the asset check -------------- *)
Returned == check_result.returned
Failures == check_result.errors
df == objects_transform
DfRows == 1..Len(df.rows)
SchemaCols == 1..Len(object_transform_schema)

\* the entries of the returned list for a column and for one of its checks
EntriesOf(c) == {k \in 1..Len(Failures) : Failures[k].column = c}
EntriesFor(c, check) ==
    {k \in EntriesOf(c) : Failures[k].check = CheckStr(check)}

\* the rows on which a check of a column fails
FailingRows(c, check) == {i \in DfRows : CheckFn(check, df.rows[i][c]) = False}

\* the column is in the table with its declared type, without a null where
\* none is allowed and without a duplicate where none is allowed, so that
\* its predicates are evaluated on what they are declared for
WellTyped(column) ==
    /\ column.name \in DOMAIN df.dtype
    /\ df.dtype[column.name] = column.dtype
    /\ column.nullable \/
         \A i \in DfRows : ~IsNullCell(df.rows[i][column.name], column.dtype)
    /\ column.unique =>
         \A i, j \in DfRows :
            df.rows[i][column.name] = df.rows[j][column.name] => i = j

(* C13: check_objects_transform evaluates every predicate of every       *)
(* column and returns all failures together: every predicate that fails on *)
(* the table, two of the same column included, has an entry in the         *)
(* returned failure list.                                                  *)
C13_AllFailuresReturned ==
    Returned =>
        \A n \in SchemaCols :
            LET column == object_transform_schema[n]
            IN  WellTyped(column) =>
                   \A check \in Range(column.checks) :
                      FailingRows(column.name, check) # {} =>
                         EntriesFor(column.name, check) # {}

(* C14: the returned failure list has at most one entry for a column and *)
(* predicate, it has exactly one when the predicate fails on two or more   *)
(* rows of the column, and deduplication keeps the first entry of each     *)
(* pair in the original order.                                             *)
C14_OneEntryPerPredicate ==
    /\ Returned =>
         \A n \in SchemaCols :
            LET column == object_transform_schema[n]
            IN  \A check \in Range(column.checks) :
                   /\ Cardinality(EntriesFor(column.name, check)) <= 1
                   /\ (WellTyped(column)
                        /\ Cardinality(FailingRows(column.name, check)) >= 2) =>
                         Cardinality(EntriesFor(column.name, check)) = 1
    /\ check_pc.state = "reported" =>
         /\ \A k \in 1..Len(unique_errors) : unique_errors[k] \in Range(Failures)
         /\ \A k \in 1..Len(Failures) :
               \E j \in 1..Len(unique_errors) :
                  /\ unique_errors[j].column = Failures[k].column
                  /\ unique_errors[j].check = Failures[k].check
         /\ \A j, k \in 1..Len(unique_errors) :
               j < k =>
                  \E a, b \in 1..Len(Failures) :
                     /\ a < b
                     /\ Failures[a] = unique_errors[j]
                     /\ Failures[b] = unique_errors[k]
                     /\ \A x \in 1..(a - 1) : Failures[x] # unique_errors[j]
                     /\ \A x \in 1..(b - 1) : Failures[x] # unique_errors[k]

\* the table is fully valid: every column with its declared type, no null
\* but in date_made, distinct identifiers, a title, every list with an
\* element, and every element as the predicates ask
FullyValid ==
    /\ DOMAIN df.dtype = Range(EnrichedCols)
    /\ \A n \in SchemaCols :
          df.dtype[object_transform_schema[n].name] = object_transform_schema[n].dtype
    /\ \A i, j \in DfRows : df.rows[i].object_id = df.rows[j].object_id => i = j
    /\ \A i \in DfRows :
          LET r == df.rows[i]
              elements(c) == Range(r[c].items)
          IN  /\ r.object_id # NULL
              /\ r.title # NULL /\ Len(r.title) >= 1
              /\ r.credit_line # NULL
              /\ r.department # NULL
              /\ \A c \in {"dimensions", "media", "classifications", "constituents"} :
                    ~r[c].isNull /\ r[c].items # <<>>
              /\ \A e \in elements("dimensions") :
                    ~e.value.isNull /\ e.value.value > 10 /\ e.unit = "cm"
              /\ \E e \in elements("dimensions") : e.type = "height"
              /\ \A e \in elements("media") : e.url[1] = "https://"
              /\ Cardinality({k \in 1..Len(r.media.items) :
                                 r.media.items[k].type = "primary"}) = 1
              /\ \A e \in elements("classifications") : e.term_label # NULL
              /\ \A e \in elements("constituents") : e.name # NULL /\ Len(e.name) > 0
              /\ \E e \in elements("constituents") : e.role = "artist"

(* C16: check_objects_transform returns passed = true exactly when the   *)
(* returned failure list is empty, it returns (true, []) for a fully valid *)
(* table, and a run goes once through the columns and ends in one result.  *)
C16_PassedIffNoFailures ==
    /\ Returned =>
         /\ check_result.passed <=> Failures = <<>>
         /\ FullyValid => check_result.passed /\ Failures = <<>>
         /\ check_pc.state \in {"returned", "reported"}
         /\ check_pc.column = Len(object_transform_schema) + 1
    /\ ~Returned =>
         /\ check_result = NoResult
         /\ check_pc.state \in {"not_run", "running"}

\* a fully valid table of two rows, one without a date, has passed; and a
\* table that is not fully valid has failed
C16_Witness ==
    /\ Returned
    /\ FullyValid
    /\ Len(df.rows) = 2
    /\ \E i \in DfRows : df.rows[i].date_made.isNull
    /\ check_result.passed
    /\ Failures = <<>>

(* C17: when a column's type differs from the declared type, also in the *)
(* type of one field of its list elements, check_objects_transform returns *)
(* passed = false and a failure entry that names the column.               *)
C17_DtypeMismatchReported ==
    Returned =>
        \A n \in SchemaCols :
            LET c == object_transform_schema[n].name
            IN  (c \in DOMAIN df.dtype /\ df.dtype[c] # object_transform_schema[n].dtype)
                    => ~check_result.passed /\ EntriesOf(c) # {}

\* constituents with birth_year Float64 where Int64 is declared, in a table
\* whose cells are all sound: the one entry is the type failure
C17_Witness ==
    /\ Returned
    /\ "constituents" \in DOMAIN df.dtype
    /\ df.dtype["constituents"].fields[3] = <<"birth_year", "Float64">>
    /\ Len(df.rows) > 0
    /\ Failures = <<[column |-> "constituents",
                     check |-> DtypeCheckStr(EnrichedDtype["constituents"])]>>
    /\ ~check_result.passed

\* the table is one the enrichment returns as far as constituents goes: the
\* column has its type and no null list
EnrichedConstituents ==
    /\ "constituents" \in DOMAIN df.dtype
    /\ df.dtype["constituents"] = EnrichedDtype["constituents"]
    /\ \A i \in DfRows : ~df.rows[i].constituents.isNull

EmptyConstituents == {i \in DfRows : df.rows[i].constituents = List(<<>>)}

(* C20: for an enriched table in which exactly one row has an empty      *)
(* constituents list, check_objects_transform returns passed = false and   *)
(* exactly one entry with column constituents and predicate                *)
(* has_at_least_one_constituent.                                           *)
C20_EmptyConstituentsReportedOnce ==
    (Returned /\ EnrichedConstituents /\ Cardinality(EmptyConstituents) = 1) =>
        /\ ~check_result.passed
        /\ Cardinality(EntriesFor("constituents", "has_at_least_one_constituent")) = 1

\* OBJ-003 with no date and no constituents beside a sound record
C20_Witness ==
    /\ Returned
    /\ DOMAIN df.dtype = Range(EnrichedCols)
    /\ EnrichedConstituents
    /\ Len(df.rows) = 2
    /\ \E i \in DfRows :
          /\ df.rows[i].object_id = "OBJ-003"
          /\ df.rows[i].date_made.isNull
          /\ EmptyConstituents = {i}
    /\ Failures = <<[column |-> "constituents",
                     check |-> CheckStr("has_at_least_one_constituent")]>>

(* ---- C18: sculpture_must_have_depth is true outside Sculpture ---------- *)
\* the rows the check named sculpture_must_have_depth was evaluated on
DepthChecked ==
    IF "sculpture_must_have_depth" \in DOMAIN check_output THEN DfRows ELSE {}
DepthOut(i) == check_output["sculpture_must_have_depth"][i]
\* the row's dimensions list holds an element whose type is depth
HasDepthElement(i) ==
    /\ ~df.rows[i].dimensions.isNull
    /\ \E k \in 1..Len(df.rows[i].dimensions.items) :
           df.rows[i].dimensions.items[k].type = "depth"

\* C18: the check sculpture_must_have_depth is true, never false and never
\* null, for every row whose department is not Sculpture or is null,
\* whatever its dimensions list holds; it is false only for a row whose
\* department is Sculpture and whose dimensions list has no element of type
\* depth.
C18_TrueOutsideSculpture ==
    \A i \in DepthChecked :
        /\ df.rows[i].department # "Sculpture" => DepthOut(i) = True
        /\ DepthOut(i) = False =>
               df.rows[i].department = "Sculpture" /\ ~HasDepthElement(i)

(* ---- C19: constituent_born_before_artwork ------------------------------ *)
\* the rows the check named constituent_born_before_artwork was evaluated on
BirthChecked ==
    IF "constituent_born_before_artwork" \in DOMAIN check_output
    THEN DfRows ELSE {}
BirthOut(i) == check_output["constituent_born_before_artwork"][i]
\* the birth years of the row's constituents that are not null
BirthYears(i) ==
    LET c == df.rows[i].constituents
    IN  IF c.isNull THEN {}
        ELSE {c.items[k].birth_year.value :
                 k \in {j \in 1..Len(c.items) : ~c.items[j].birth_year.isNull}}

NotGreaterThanOne ==
    {i \in DfRows :
        \E k \in 1..Len(df.rows[i].dimensions.items) :
           LET value == df.rows[i].dimensions.items[k].value
           IN  ~value.isNull /\ value.value <= 10}
\* the values of the dimension elements of a row
DimensionValues(i) ==
    {df.rows[i].dimensions.items[k].value :
        k \in 1..Len(df.rows[i].dimensions.items)}

\* C21: the predicate all_dimension_values_gt_1 of column dimensions fails
\* exactly when a row has a dimension element whose value is not strictly
\* greater than 1, and its failure entry names the column dimensions and
\* the predicate and carries an example that holds the value of the
\* offending row.
C21_DimensionValueReported ==
    (Returned /\ WellTyped(object_transform_schema[6])) =>
        /\ NotGreaterThanOne # {} <=>
               EntriesFor("dimensions", "all_dimension_values_gt_1") # {}
        /\ \A k \in EntriesFor("dimensions", "all_dimension_values_gt_1") :
              /\ "example" \in DOMAIN Failures[k]
              /\ \E i \in NotGreaterThanOne :
                    Failures[k]["example"] \in DimensionValues(i)

(* ---- C22: the input tables are left as they were ----------------------- *)
\* C22: neither objects_transform nor check_objects_transform changes a
\* table it is given: in every step of a call, up to its return or its
\* failure, harvest_terminology, harvest_objects and objects_transform keep
\* their columns, types, rows and values (validation writes no coerced
\* value back).
C22_InputsUnchanged ==
    [][/\ harvest_terminology' = harvest_terminology
       /\ harvest_objects' = harvest_objects
       /\ objects_transform' = objects_transform]_vars

\* the check has returned for a table with a column of another type than
\* the declared one, which a coercion would have rewritten
C22_Witness ==
    /\ Returned
    /\ Len(df.rows) > 0
    /\ \E n \in SchemaCols :
          LET c == object_transform_schema[n].name
          IN  c \in DOMAIN df.dtype /\ df.dtype[c] # object_transform_schema[n].dtype

(* ---- C23: a failed check blocks the output ----------------------------- *)
OutputWritten == check_pc.state = "output_written"

\* C23: in a run of main, objects_output is executed only after
\* check_objects_transform has returned, and it is not executed when the
\* check returned passed = false.
C23_FailedCheckBlocksOutput ==
    OutputWritten => Returned /\ check_result.passed

(* ------------ vocabulary of the claims on the predicates ---------------- *)
\* the schema variants whose predicates were evaluated, and the Boolean a
\* predicate of a variant gave for a row
Variants == {"object_transform_schema", "ObjectTransformSchema"}
Evaluated == DOMAIN check_output \cap Variants
PredicateOut(variant, check, i) == check_output[variant][check][i]
\* a predicate passes for a row when it does not give false
Passes(variant, check, i) == PredicateOut(variant, check, i) # False
\* the elements of a list cell of a row
ElementsOf(i, c) == Range(df.rows[i][c].items)

(* ---- C24: has_at_least_one_artist -------------------------------------- *)
\* C24: has_at_least_one_artist passes for every row whose constituents
\* list is empty, in the schema of pipeline.py and in the schema of
\* schema.py; for a list with elements it passes exactly when an element has
\* the role artist.
C24_ArtistVacuousOnEmpty ==
    \A variant \in Evaluated :
        \A i \in DfRows :
            LET c == df.rows[i].constituents
            IN  ~c.isNull =>
                   (Passes(variant, "has_at_least_one_artist", i) <=>
                       \/ c.items = <<>>
                       \/ \E e \in ElementsOf(i, "constituents") : e.role = "artist")

(* ---- C25: no_null_labels_in_classifications ---------------------------- *)
\* the row has a classification element with a null type_label or a null
\* term_label
HasNullLabel(i) ==
    \E e \in ElementsOf(i, "classifications") :
        e.type_label = NULL \/ e.term_label = NULL

\* C25: no_null_labels_in_classifications fails for every row with a
\* classification element that has a null label, in type_label or in
\* term_label, and passes only when every label of every element is not
\* null or the list is empty.
C25_NullLabelsRejected ==
    \A variant \in Evaluated :
        \A i \in DfRows :
            ~df.rows[i].classifications.isNull =>
                (Passes(variant, "no_null_labels_in_classifications", i)
                    <=> ~HasNullLabel(i))

(* ---- C26: has_primary_image -------------------------------------------- *)
\* the number of elements of the row's media list whose type is primary
PrimaryImages(i) ==
    Cardinality({k \in 1..Len(df.rows[i].media.items) :
                    df.rows[i].media.items[k].type = "primary"})

NationalityCount(id) ==
    Cardinality({n \in 1..Len(harvest_terminology) :
                    /\ id # NULL
                    /\ harvest_terminology[n].term_id = id
                    /\ harvest_terminology[n].term_type = "nationality"})
\* the enriched element of a constituent whose nationality_id names at most
\* one row of term_type nationality
ResolvedConstituent(e) ==
    [name |-> e.name, role |-> e.role, birth_year |-> e.birth_year,
     nationality |-> IF NationalitiesOf(e.nationality_id) = {} THEN NULL
                     ELSE CHOOSE l \in NationalitiesOf(e.nationality_id) : TRUE]
\* the input rows that carry the identifier of input row i
SameObject(i) ==
    {h \in InRows : ObjId(harvest_objects[h]) = ObjId(harvest_objects[i])}

\* C27: a constituent element of an input row gives, in that row's
\* constituents, one element with its name, role and birth_year and with the
\* label of the terminology row of term_type nationality whose term_id is the
\* element's nationality_id as nationality, or null when there is no such
\* row (once per occurrence where nothing else feeds the list); a row of
\* another term_type never supplies a nationality, whereas a classification
\* element receives the labels of the rows its identifiers name, whatever
\* their term_type.
C27_NationalityFromNationalityRows ==
    Done =>
        \A i \in InRows : \A j \in OutRowsOf(i) :
            LET co == harvest_objects[i]["constituents"]
                cl == ClassIds(harvest_objects[i])
                out == Out[j]["constituents"].items
            IN  /\ \A k \in 1..Size(co) :
                      NationalityCount(co.items[k].nationality_id) <= 1 =>
                         /\ ResolvedConstituent(co.items[k]) \in Range(out)
                         /\ (SameObject(i) = {i}
                               /\ \A n \in 1..Size(co) :
                                     NationalityCount(co.items[n].nationality_id) <= 1)
                              => CountOf(out, ResolvedConstituent(co.items[k]))
                                   = Cardinality({n \in 1..Size(co) :
                                        ResolvedConstituent(co.items[n])
                                            = ResolvedConstituent(co.items[k])})
                /\ \A x \in Range(out) :
                      \E h \in SameObject(i) :
                         \E e \in Range(harvest_objects[h]["constituents"].items) :
                            x \in EnrichedConst(e)
                /\ \A k \in 1..Size(cl) :
                      \E x \in Range(Out[j]["classifications"].items) :
                         /\ x \in EnrichedClass(cl.items[k])
                         /\ LabelsOf(cl.items[k].type_id) # {} => x.type_label # NULL

\* Claude Monet with nationality_id T1: French when the terminology lists T1
\* as a nationality, null when it lists T1 as an object type only; and a
\* classification whose type_id T1 is resolved by the nationality row
C27_Witness ==
    /\ Done
    /\ \E i \in InRows : \E j \in OutRowsOf(i) :
          /\ \E e \in Range(harvest_objects[i]["constituents"].items) :
                /\ e.nationality_id = "T1"
                /\ LabelsOf("T1") # {}
                /\ ResolvedConstituent(e) \in Range(Out[j]["constituents"].items)
                /\ ResolvedConstituent(e).nationality =
                      IF NationalitiesOf("T1") = {} THEN NULL ELSE "French"
          /\ \/ NationalitiesOf("T1") = {}
             \/ /\ LabelsOf("T1") = {"French"}
                /\ \E x \in Range(Out[j]["classifications"].items) :
                      x.type_label = "French"

(* ---- C28: one entry per column, the first failing predicate ------------ *)
\* the place of a column in the declaration order of the schema
PlaceOf(c) == CHOOSE n \in SchemaCols : object_transform_schema[n].name = c
\* the places, in the declared order of a column's checks, of those that
\* fail on the table
FailingPlaces(column) ==
    {k \in 1..Len(column.checks) : FailingRows(column.name, column.checks[k]) # {}}

\* C28: check_objects_transform of pipeline_xml.py returns at most one
\* failure entry per schema column, in the declaration order of the
\* columns; when several predicates of a column fail, the entry is the first
\* failing one and the later ones are not reported.
C28_FirstFailurePerColumn ==
    Returned =>
        /\ \A n \in SchemaCols :
              Cardinality(EntriesOf(object_transform_schema[n].name)) <= 1
        /\ \A a, b \in 1..Len(Failures) :
              a < b => PlaceOf(Failures[a].column) < PlaceOf(Failures[b].column)
        /\ \A n \in SchemaCols :
              LET column == object_transform_schema[n]
                  first == CHOOSE k \in FailingPlaces(column) :
                              \A m \in FailingPlaces(column) : k <= m
              IN  (WellTyped(column) /\ FailingPlaces(column) # {}) =>
                     \A k \in 1..Len(column.checks) :
                        EntriesFor(column.name, column.checks[k]) # {} <=> k = first

\* a table whose title is empty and whose dimensions fail two predicates:
\* two entries, title before dimensions, the first predicate of dimensions
C28_Witness ==
    /\ Returned
    /\ Failures = <<[column |-> "title", check |-> CheckStr("str_length")],
                    [column |-> "dimensions",
                     check |-> CheckStr("all_dimension_values_gt_1")]>>
    /\ Cardinality(FailingPlaces(object_transform_schema[6])) >= 2

(* ---- C29: the two schema variants agree -------------------------------- *)
\* the predicates both variants declare under one name
SameNamed == CheckNames(object_transform_schema) \cap CheckNames(ObjectTransformSchema)

\* C29: on every enriched table the schema of pipeline.py and the schema of
\* schema.py give the same verdict, and every predicate they declare under
\* one name gives the same result for every row in both.
C29_SchemaVariantsAgree ==
    Evaluated = Variants =>
        \A check \in SameNamed : \A i \in DfRows :
            PredicateOut("object_transform_schema", check, i)
                = PredicateOut("ObjectTransformSchema", check, i)

(* ---- C30: the rows come back in the order of the input ----------------- *)
\* C30: the i-th row of the table objects_transform returns has the
\* object_id and the pass-through values of the i-th row of the objects
\* table, whichever rows had empty lists and in whatever order group_by and
\* the joins emitted their rows.
C30_RowOrderPreserved ==
    Done =>
        /\ Len(Out) = Len(harvest_objects)
        /\ \A i \in InRows :
              /\ Out[i]["object_id"] = ObjId(harvest_objects[i])
              /\ \A c \in SelectedCols \ {"object_id"} :
                    Out[i][c] = harvest_objects[i][c]

====
